---- MODULE Spec2Model ----
(***************************************************************************)
(* Face_Recognization: the face database loader (face_database.py), the    *)
(* directory helpers (utils/directory_utils.py), the webcam recognition    *)
(* logger (webcam_logger.py) and the live camera viewer (live_camera.py).  *)
(*                                                                         *)
(* Four specifications share the definitions of this module:               *)
(*   SpecFiles  list_image_files over a directory of file names            *)
(*   SpecDb     FaceDatabase.load_database / get_summary                   *)
(*   SpecMatch  the matcher of process_frame over a loaded store           *)
(*   Spec       FaceRecognitionLogger.run and run_live, step by step       *)
(*                                                                         *)
(* A face encoding (a 128-d vector in the library) is a point on a line,   *)
(* in units of 0.3: face_distance is the absolute difference and the       *)
(* library's default tolerance 0.6 is 2.                                   *)
(***************************************************************************)
EXTENDS Integers, Sequences, FiniteSets, TLC

VARIABLES
    \* a directory handed to list_image_files, and what it returned
    directory, image_files, listed,
    \* the faces directory on disk and the FaceDatabase object
    faces_dir, known_face_encodings, known_face_names, encoding_count,
    loads,
    \* the matcher's inputs and output
    query, tolerance, match_name, matched,
    \* the FaceRecognitionLogger object and the run() call in progress
    pc, runs, run_result, exit_path, video_capture, log_file, log, log_closes,
    log_opened, files_created, frame_count, face_locations, face_encodings,
    face_names, recognized_faces, calls, detections, session_frames,
    \* a run_live call
    live_pc, live_cap, live_result, live_frames

dbvars == <<faces_dir, known_face_encodings, known_face_names, encoding_count,
            loads>>
filevars == <<directory, image_files, listed>>
matchvars == <<query, tolerance, match_name, matched>>
framevars == <<frame_count, face_locations, face_encodings, face_names,
               recognized_faces, calls, detections>>
loggervars == <<pc, runs, run_result, exit_path, video_capture, log_file, log,
                log_closes, log_opened, files_created, session_frames, framevars>>
livevars == <<live_pc, live_cap, live_result, live_frames>>
vars == <<filevars, dbvars, matchvars, loggervars, livevars>>

----------------------------------------------------------------------------
(* Bounds *)

\* files in one directory
MaxFiles == 3
\* image files in one person's directory
MaxImages == 2
\* load_database calls on one FaceDatabase
MaxLoads == 2
\* largest coordinate of a query encoding
MaxQuery == 3
\* largest tolerance tried by the matcher's specification
MaxTol == 2
\* process_frame calls on one FaceRecognitionLogger, frames of one run_live
MaxFrames == 4
\* run() calls on one FaceRecognitionLogger
MaxRuns == 2

----------------------------------------------------------------------------
(* Sequences and characters *)

Range(s) == {s[i] : i \in 1..Len(s)}

SeqsUpTo(S, n) == UNION {[1..k -> S] : k \in 0..n}

Lowers == <<"a","b","c","d","e","f","g","h","i","j","k","l","m",
            "n","o","p","q","r","s","t","u","v","w","x","y","z">>
Uppers == <<"A","B","C","D","E","F","G","H","I","J","K","L","M",
            "N","O","P","Q","R","S","T","U","V","W","X","Y","Z">>

IndexIn(s, c) == CHOOSE i \in 1..Len(s) : s[i] = c

\* the code point of a character: the order str comparison uses
Ord(c) ==
    IF c \in Range(Lowers) THEN 96 + IndexIn(Lowers, c)
    ELSE IF c \in Range(Uppers) THEN 64 + IndexIn(Uppers, c)
    ELSE 46

\* str.upper and str.lower, character by character
UpperChar(c) == IF c \in Range(Lowers) THEN Uppers[IndexIn(Lowers, c)] ELSE c
LowerChar(c) == IF c \in Range(Uppers) THEN Lowers[IndexIn(Uppers, c)] ELSE c
Upper(s) == [i \in 1..Len(s) |-> UpperChar(s[i])]
Lower(s) == [i \in 1..Len(s) |-> LowerChar(s[i])]

\* s < t as Python compares two strings (and two paths of one directory)
RECURSIVE StrLess(_, _)
StrLess(s, t) ==
    IF t = <<>> THEN FALSE
    ELSE IF s = <<>> THEN TRUE
    ELSE IF Ord(Head(s)) # Ord(Head(t)) THEN Ord(Head(s)) < Ord(Head(t))
    ELSE StrLess(Tail(s), Tail(t))

EndsWith(s, suf) ==
    /\ Len(s) >= Len(suf)
    /\ SubSeq(s, Len(s) - Len(suf) + 1, Len(s)) = suf

\* Path.suffix: from the last dot of the name on, "" when there is none
Suffix(s) ==
    LET dots == {i \in 2..Len(s) : s[i] = "."}
    IN  IF dots = {} THEN <<>>
        ELSE SubSeq(s, CHOOSE i \in dots : \A j \in dots : j <= i, Len(s))

\* a set as a sequence, in some order (the order a directory scan yields)
RECURSIVE SetToSeq(_)
SetToSeq(S) ==
    IF S = {} THEN <<>>
    ELSE LET x == CHOOSE y \in S : TRUE IN <<x>> \o SetToSeq(S \ {x})

----------------------------------------------------------------------------
(* utils/directory_utils.py: list_image_files *)

DefaultExtensions ==
    << <<".","j","p","g">>, <<".","j","p","e","g">>, <<".","p","n","g">>,
       <<".","b","m","p">>, <<".","g","i","f">> >>

\* path.glob("*" + ext) on a case-sensitive file system
Glob(dir, ext) == {f \in dir : EndsWith(f, ext)}

\* the loop of lines 94-97: both globs of each extension, appended in turn
RECURSIVE CollectImageFiles(_, _)
CollectImageFiles(dir, exts) ==
    IF exts = <<>> THEN <<>>
    ELSE SetToSeq(Glob(dir, Head(exts)))
         \o SetToSeq(Glob(dir, Upper(Head(exts))))
         \o CollectImageFiles(dir, Tail(exts))

list_image_files(dir) ==
    SortSeq(CollectImageFiles(dir, DefaultExtensions), StrLess)

\* the file names a directory may hold
FileNames ==
    { <<"a",".","j","p","g">>, <<"b",".","J","P","G">>, <<"c",".","J","p","g">>,
      <<"d",".","j","P","e","G">>, <<"B",".","p","n","g">>, <<"e",".","t","x","t">>,
      <<"a",".","G","I","F">>, <<"j","p","g">>, <<"f",".","b","m","p">> }

Directories == {d \in SUBSET FileNames : Cardinality(d) <= MaxFiles}

InitFiles ==
    /\ directory \in Directories
    /\ image_files = <<>>
    /\ listed = FALSE

ListImageFiles ==
    /\ ~listed
    /\ image_files' = list_image_files(directory)
    /\ listed' = TRUE
    /\ UNCHANGED directory

----------------------------------------------------------------------------
(* face_database.py: FaceDatabase *)

Persons == {"alice", "bob"}

\* what face_recognition.load_image_file + face_encodings do with one image:
\* raise, or return the encodings of the faces found, in the extractor's order
Raises == [raises |-> TRUE, encodings |-> <<>>]
Faces(encs) == [raises |-> FALSE, encodings |-> encs]

Outcomes == {Raises, Faces(<<>>), Faces(<<0>>), Faces(<<1>>), Faces(<<1, 0>>)}
SingleFaceOutcomes == {Faces(<<0>>), Faces(<<2>>)}

\* Optional values: None is the empty sequence, a value v is <<v>>
None == <<>>
Some(v) == <<v>>

\* A faces directory: whether it exists, and its subdirectories in the order
\* iterdir yields them; each holds the outcomes of its image files, in the
\* order list_image_files returned them
PersonDirs(outcomes) ==
    {p \in SeqsUpTo([name : Persons, images : SeqsUpTo(outcomes, MaxImages)], 2) :
        \A i, j \in 1..Len(p) : i # j => p[i].name # p[j].name}

FacesDirs(outcomes) ==
    {[exists |-> FALSE, people |-> <<>>]}
    \cup {[exists |-> TRUE, people |-> p] : p \in PersonDirs(outcomes)}

_load_face_encoding_last(image) ==
    IF image.raises THEN None
    ELSE IF Len(image.encodings) = 0 THEN None
    ELSE Some(image.encodings[Len(image.encodings)])

_load_face_encoding(image) ==
    IF image.raises THEN None
    ELSE IF Len(image.encodings) = 0 THEN None
    ELSE Some(image.encodings[1])

\* the dict assignment d[k] = v
DictSet(d, k, v) == [n \in DOMAIN d \cup {k} |-> IF n = k THEN v ELSE d[n]]

\* lines 68-74: the images of one person, appended to the two lists
RECURSIVE LoadImages(_, _, _)
LoadImages(images, person_name, st) ==
    IF images = <<>> THEN st
    ELSE LET encoding == _load_face_encoding(Head(images))
             next == IF encoding # None
                     THEN [encodings |-> Append(st.encodings, encoding[1]),
                           names |-> Append(st.names, person_name),
                           count |-> st.count,
                           encodings_loaded |-> st.encodings_loaded + 1]
                     ELSE st
         IN  LoadImages(Tail(images), person_name, next)

\* lines 57-77: the loop over the person directories
RECURSIVE LoadPersonDirs(_, _)
LoadPersonDirs(person_dirs, st) ==
    IF person_dirs = <<>> THEN st
    ELSE LET person_dir == Head(person_dirs)
             next ==
               IF person_dir.images = <<>> THEN st
               ELSE LET done == LoadImages(person_dir.images, person_dir.name,
                                           [st EXCEPT !.encodings_loaded = 0])
                    IN  [done EXCEPT !.count =
                            DictSet(done.count, person_dir.name, done.encodings_loaded)]
         IN  LoadPersonDirs(Tail(person_dirs), next)

load_database(dir, encodings, names, count) ==
    LET st == [encodings |-> encodings, names |-> names, count |-> count,
               encodings_loaded |-> 0]
    IN  IF ~dir.exists THEN st
        ELSE IF dir.people = <<>> THEN st
        ELSE LoadPersonDirs(dir.people, st)

get_summary ==
    [total_encodings |-> Len(known_face_encodings),
     unique_persons |-> Cardinality(DOMAIN encoding_count),
     encoding_count |-> encoding_count]

InitDatabase ==
    /\ known_face_encodings = <<>>
    /\ known_face_names = <<>>
    /\ encoding_count = <<>>
    /\ loads = 0

InitDb ==
    /\ faces_dir \in FacesDirs(Outcomes)
    /\ InitDatabase

DoLoadDatabase ==
    /\ LET st == load_database(faces_dir, known_face_encodings,
                               known_face_names, encoding_count)
       IN  /\ known_face_encodings' = st.encodings
           /\ known_face_names' = st.names
           /\ encoding_count' = st.count
    /\ loads' = loads + 1
    /\ UNCHANGED faces_dir

LoadDatabase ==
    /\ loads < MaxLoads
    /\ DoLoadDatabase

----------------------------------------------------------------------------
(* webcam_logger.py: the matcher of process_frame, lines 140-154 *)

\* compare_faces is called without a tolerance: the library's 0.6
DefaultTolerance == 2

Abs(x) == IF x < 0 THEN 0 - x ELSE x

face_distance(known, face_encoding) ==
    [i \in 1..Len(known) |-> Abs(known[i] - face_encoding)]

compare_faces(known, face_encoding, tol) ==
    [i \in 1..Len(known) |-> face_distance(known, face_encoding)[i] <= tol]

\* np.argmin: the first index of the smallest value
argmin(d) ==
    CHOOSE i \in 1..Len(d) :
        /\ \A j \in 1..Len(d) : d[i] <= d[j]
        /\ \A j \in 1..(i - 1) : d[j] # d[i]

\* the nearest known face names the face, however far it is
MatchFace_nearest_only(known_encodings, known_names, face_encoding, tol) ==
    LET face_distances == face_distance(known_encodings, face_encoding)
    IN  IF Len(face_distances) > 0
        THEN [recognised |-> TRUE, name |-> known_names[argmin(face_distances)]]
        ELSE [recognised |-> FALSE, name |-> "Unknown"]

\* the first known face within the tolerance names the face
MatchFace_first_match(known_encodings, known_names, face_encoding, tol) ==
    LET matches == compare_faces(known_encodings, face_encoding, tol)
        hits == {i \in 1..Len(matches) : matches[i]}
    IN  IF hits # {}
        THEN [recognised |-> TRUE,
              name |-> known_names[CHOOSE i \in hits : \A j \in hits : i <= j]]
        ELSE [recognised |-> FALSE, name |-> "Unknown"]

\* lines 142-151: whether the face is recognised, and the name it gets
MatchFace(known_encodings, known_names, face_encoding, tol) ==
    LET matches == compare_faces(known_encodings, face_encoding, tol)
        face_distances == face_distance(known_encodings, face_encoding)
    IN  IF Len(face_distances) > 0
        THEN LET best_match_index == argmin(face_distances)
             IN  IF matches[best_match_index]
                 THEN [recognised |-> TRUE, name |-> known_names[best_match_index]]
                 ELSE [recognised |-> FALSE, name |-> "Unknown"]
        ELSE [recognised |-> FALSE, name |-> "Unknown"]

QueryEncodings == 0..MaxQuery
Tolerances == 0..MaxTol

InitMatcher ==
    /\ query = 0
    /\ tolerance = DefaultTolerance
    /\ match_name = "Unknown"
    /\ matched = FALSE

InitMatch ==
    /\ faces_dir \in FacesDirs(SingleFaceOutcomes)
    /\ InitDatabase
    /\ InitMatcher

Match(q, tol) ==
    /\ query' = q
    /\ tolerance' = tol
    /\ match_name' = MatchFace(known_face_encodings, known_face_names, q, tol).name
    /\ matched' = TRUE
    /\ UNCHANGED dbvars

----------------------------------------------------------------------------
(* webcam_logger.py: FaceRecognitionLogger *)

process_every_n_frames == 2

\* The lines of a log file
HeaderLines == << [kind |-> "title", name |-> ""], [kind |-> "rule", name |-> ""] >>
FooterLines == << [kind |-> "rule", name |-> ""], [kind |-> "ended", name |-> ""] >>
Entry(name) == [kind |-> "recognized", name |-> name]

IsEntry(line) == line.kind = "recognized"
EntryNames(lines) ==
    LET entries == SelectSeq(lines, IsEntry)
    IN  [i \in 1..Len(entries) |-> entries[i].name]

log_recognition_every_time(st, name) ==
    IF name # "Unknown"
    THEN [st EXCEPT !.log = Append(st.log, Entry(name)),
                    !.recognized = st.recognized \cup {name}]
    ELSE st

\* lines 109-115, on the log lines and the logged set
log_recognition(st, name) ==
    IF name # "Unknown" /\ name \notin st.recognized
    THEN [st EXCEPT !.log = Append(st.log, Entry(name)),
                    !.recognized = st.recognized \cup {name}]
    ELSE st

\* lines 140-154: the loop over the encodings found in the frame
RECURSIVE RecogniseFaces(_, _)
RecogniseFaces(encodings, st) ==
    IF encodings = <<>> THEN st
    ELSE LET m == MatchFace(known_face_encodings, known_face_names,
                            Head(encodings), DefaultTolerance)
             logged == IF m.recognised THEN log_recognition(st, m.name) ELSE st
         IN  RecogniseFaces(Tail(encodings),
                 [logged EXCEPT !.names = Append(logged.names, m.name)])

ShouldProcessOdd(count) == count % process_every_n_frames = 1

\* line 134
ShouldProcess(count) == count % process_every_n_frames = 0

\* lines 133-156: process_frame on a frame showing the faces `faces`
process_frame(faces) ==
    IF ShouldProcess(frame_count)
    THEN LET st == RecogniseFaces(faces, [names |-> <<>>, log |-> log,
                                          recognized |-> recognized_faces])
         IN  [face_locations |-> [i \in 1..Len(faces) |-> i],
              face_encodings |-> faces,
              face_names |-> st.names,
              log |-> st.log,
              recognized_faces |-> st.recognized,
              detections |-> detections + 1,
              frame_count |-> frame_count + 1]
    ELSE [face_locations |-> face_locations,
          face_encodings |-> face_encodings,
          face_names |-> face_names,
          log |-> log,
          recognized_faces |-> recognized_faces,
          detections |-> detections,
          frame_count |-> frame_count + 1]

\* lines 228-235: cleanup, given the log lines written so far. A log file left
\* closed by an earlier call is still truthy: the footer write raises on it and
\* nothing more is written or closed
cleanup(lines) ==
    [video_capture |-> IF video_capture # "None" THEN "released" ELSE video_capture,
     log_file |-> IF log_file = "open" THEN "closed" ELSE log_file,
     log |-> IF log_file = "open" THEN lines \o FooterLines ELSE lines,
     log_closes |-> IF log_file = "open" THEN log_closes + 1 ELSE log_closes]

\* the faces a frame may show: none, one or two, as the encodings found
FrameEncodings == {0, 3, 5}
FrameFaces ==
    {<<>>} \cup {<<a>> : a \in FrameEncodings}
           \cup {<<a, b>> : a, b \in FrameEncodings}

\* the faces directories the logger is run on
LoggerFacesDirs ==
    { [exists |-> FALSE, people |-> <<>>],
      [exists |-> TRUE, people |-> << [name |-> "alice", images |-> <<Faces(<<>>)>>] >>],
      [exists |-> TRUE, people |-> << [name |-> "alice", images |-> <<Faces(<<0>>)>>],
                                      [name |-> "bob", images |-> <<Faces(<<6>>)>>] >>],
      [exists |-> TRUE, people |-> << [name |-> "bob", images |-> <<Faces(<<5>>)>>],
                                      [name |-> "alice", images |-> <<Faces(<<0>>), Faces(<<1>>)>>] >>] }

InitLogger ==
    /\ pc = "idle"
    /\ runs = 0
    /\ run_result = "none"
    /\ exit_path = "none"
    /\ video_capture = "None"
    /\ log_file = "None"
    /\ log = <<>>
    /\ log_closes = 0
    /\ log_opened = FALSE
    /\ files_created = 0
    /\ session_frames = 0
    /\ frame_count = 0
    /\ face_locations = <<>>
    /\ face_encodings = <<>>
    /\ face_names = <<>>
    /\ recognized_faces = {}
    /\ calls = 0
    /\ detections = 0

\* what a step of the logger leaves alone, and what a step of run_live does
LoggerOnly == UNCHANGED <<filevars, matchvars, livevars>>
LiveOnly == UNCHANGED <<filevars, dbvars, matchvars, loggervars>>

\* run() is entered: line 185, load_known_faces
RunBegin ==
    /\ LoggerOnly
    /\ pc = "idle"
    /\ live_pc = "idle"
    /\ runs < MaxRuns
    /\ DoLoadDatabase
    /\ runs' = runs + 1
    /\ session_frames' = 0

\* lines 185-188: no known face was loaded
RunNoFaces ==
    /\ RunBegin
    /\ Len(known_face_encodings') = 0
    /\ run_result' = "returned"
    /\ exit_path' = "no_faces"
    /\ log_opened' = FALSE
    /\ UNCHANGED <<pc, video_capture, log_file, log, log_closes, files_created,
                   framevars>>

\* lines 191-192: the camera does not open
RunCameraFails ==
    /\ RunBegin
    /\ Len(known_face_encodings') # 0
    /\ video_capture' = "unopened"
    /\ run_result' = "returned"
    /\ exit_path' = "camera"
    /\ log_opened' = FALSE
    /\ UNCHANGED <<pc, log_file, log, log_closes, files_created, framevars>>

\* line 195: initialize_logging raises, in open() or in a write after it
RunLoggingFails ==
    /\ RunBegin
    /\ Len(known_face_encodings') # 0
    /\ video_capture' = "opened"
    /\ \/ UNCHANGED <<log_file, log, log_closes, files_created>>
       \/ /\ log_file' = "open"
          /\ log' = <<>>
          /\ log_closes' = 0
          /\ files_created' = files_created + 1
    /\ run_result' = "raised"
    /\ exit_path' = "logging"
    /\ log_opened' = FALSE
    /\ UNCHANGED <<pc, framevars>>

\* lines 185-199: the camera opens and the log is started
RunStarts ==
    /\ RunBegin
    /\ Len(known_face_encodings') # 0
    /\ video_capture' = "opened"
    /\ log_file' = "open"
    /\ log' = HeaderLines
    /\ log_closes' = 0
    /\ files_created' = files_created + 1
    /\ log_opened' = TRUE
    /\ run_result' = "none"
    /\ exit_path' = "none"
    /\ pc' = "loop"
    /\ UNCHANGED framevars

\* how run() leaves the loop: the finally clause, then the return or the raise
LeaveLoop(lines, result, path) ==
    LET c == cleanup(lines)
    IN  /\ video_capture' = c.video_capture
        /\ log_file' = c.log_file
        /\ log' = c.log
        /\ log_closes' = c.log_closes
        /\ run_result' = result
        /\ exit_path' = path
        /\ pc' = "idle"

\* lines 204-208: the frame read fails
ReadFails ==
    /\ LoggerOnly
    /\ pc = "loop"
    /\ LeaveLoop(log, "returned", "read")
    /\ UNCHANGED <<dbvars, runs, log_opened, files_created, session_frames, framevars>>

SetFrameState(f) ==
    /\ frame_count' = f.frame_count
    /\ face_locations' = f.face_locations
    /\ face_encodings' = f.face_encodings
    /\ face_names' = f.face_names
    /\ recognized_faces' = f.recognized_faces
    /\ detections' = f.detections
    /\ calls' = calls + 1

\* lines 204-219: a frame is read, processed and shown; `quit` is the q key
Frame(faces, quit) ==
    /\ LoggerOnly
    /\ pc = "loop"
    /\ frame_count < MaxFrames
    /\ LET f == process_frame(faces)
       IN  /\ SetFrameState(f)
           /\ IF quit
              THEN LeaveLoop(f.log, "returned", "quit")
              ELSE /\ log' = f.log
                   /\ UNCHANGED <<video_capture, log_file, log_closes, run_result,
                                  exit_path, pc>>
    /\ session_frames' = session_frames + 1
    /\ UNCHANGED <<dbvars, runs, log_opened, files_created>>

\* line 211: process_frame raises before it changes anything (in cv2.resize,
\* cv2.cvtColor or the detector)
ProcessFrameRaises ==
    /\ LoggerOnly
    /\ pc = "loop"
    /\ LeaveLoop(log, "raised", "exception")
    /\ session_frames' = session_frames + 1
    /\ UNCHANGED <<dbvars, runs, log_opened, files_created, framevars>>

\* line 214: the frame is processed and showing it raises
ShowRaises(faces) ==
    /\ LoggerOnly
    /\ pc = "loop"
    /\ frame_count < MaxFrames
    /\ LET f == process_frame(faces)
       IN  /\ SetFrameState(f)
           /\ LeaveLoop(f.log, "raised", "exception")
    /\ session_frames' = session_frames + 1
    /\ UNCHANGED <<dbvars, runs, log_opened, files_created>>

----------------------------------------------------------------------------
(* live_camera.py: run_live *)

InitLive ==
    /\ live_pc = "idle"
    /\ live_cap = "None"
    /\ live_result = "none"
    /\ live_frames = 0

LiveFresh ==
    /\ LiveOnly
    /\ live_pc = "idle"
    /\ pc = "idle"
    /\ runs = 0

\* lines 12-14
LiveCameraFails ==
    /\ LiveFresh
    /\ live_cap' = "unopened"
    /\ live_result' = "raised"
    /\ live_pc' = "exited"
    /\ UNCHANGED live_frames

\* lines 12-16
LiveStarts ==
    /\ LiveFresh
    /\ live_cap' = "opened"
    /\ live_pc' = "loop"
    /\ UNCHANGED <<live_result, live_frames>>

\* lines 46-48, then the return or the raise
LiveLeave(result) ==
    /\ live_cap' = "released"
    /\ live_result' = result
    /\ live_pc' = "exited"

\* lines 19-21
LiveReadFails ==
    /\ LiveOnly
    /\ live_pc = "loop"
    /\ LiveLeave("returned")
    /\ UNCHANGED live_frames

\* lines 19-45
LiveFrame(quit) ==
    /\ LiveOnly
    /\ live_pc = "loop"
    /\ live_frames < MaxFrames
    /\ live_frames' = live_frames + 1
    /\ IF quit THEN LiveLeave("returned")
       ELSE UNCHANGED <<live_cap, live_result, live_pc>>

\* lines 23-43: something in the loop raises
LiveRaises ==
    /\ LiveOnly
    /\ live_pc = "loop"
    /\ LiveLeave("raised")
    /\ UNCHANGED live_frames

----------------------------------------------------------------------------
(* Specifications *)

IdleFiles ==
    /\ directory = {}
    /\ image_files = <<>>
    /\ listed = FALSE

IdleDb ==
    /\ faces_dir = [exists |-> FALSE, people |-> <<>>]
    /\ InitDatabase

InitSpecFiles == InitFiles /\ IdleDb /\ InitMatcher /\ InitLogger /\ InitLive

NextFiles == ListImageFiles /\ UNCHANGED <<dbvars, matchvars, loggervars, livevars>>

SpecFiles == InitSpecFiles /\ [][NextFiles]_vars

InitSpecDb == IdleFiles /\ InitDb /\ InitMatcher /\ InitLogger /\ InitLive

NextDb == LoadDatabase /\ UNCHANGED <<filevars, matchvars, loggervars, livevars>>

SpecDb == InitSpecDb /\ [][NextDb]_vars

InitSpecMatch == IdleFiles /\ InitMatch /\ InitLogger /\ InitLive

\* matched: match_name is the matcher's answer for query on the store as it is
NextMatch ==
    \/ /\ LoadDatabase
       /\ matched' = FALSE
       /\ UNCHANGED <<filevars, query, tolerance, match_name, loggervars, livevars>>
    \/ \E q \in QueryEncodings, tol \in Tolerances :
          Match(q, tol) /\ UNCHANGED <<filevars, loggervars, livevars>>

SpecMatch == InitSpecMatch /\ [][NextMatch]_vars

Init ==
    /\ IdleFiles
    /\ faces_dir \in LoggerFacesDirs
    /\ InitDatabase
    /\ InitMatcher
    /\ InitLogger
    /\ InitLive

Next ==
    \/ RunNoFaces
    \/ RunCameraFails
    \/ RunLoggingFails
    \/ RunStarts
    \/ ReadFails
    \/ \E faces \in FrameFaces, quit \in BOOLEAN : Frame(faces, quit)
    \/ ProcessFrameRaises
    \/ \E faces \in FrameFaces : ShowRaises(faces)
    \/ LiveCameraFails
    \/ LiveStarts
    \/ LiveReadFails
    \/ \E quit \in BOOLEAN : LiveFrame(quit)
    \/ LiveRaises

Spec == Init /\ [][Next]_vars

----------------------------------------------------------------------------
(* Properties *)

NoDuplicates(s) == \A i, j \in 1..Len(s) : i # j => s[i] # s[j]
IsPrefix(s, t) == Len(s) <= Len(t) /\ SubSeq(t, 1, Len(s)) = s
FirstIndex(s, x) == CHOOSE i \in 1..Len(s) : s[i] = x /\ \A j \in 1..(i - 1) : s[j] # x
Occurrences(s, x) == Cardinality({i \in 1..Len(s) : s[i] = x})

\* the names process_frame gave the faces of the frame of this step, when the
\* step recognised faces at all
NamesOfStep == IF detections' # detections THEN face_names' ELSE <<>>
NewEntries ==
    SubSeq(EntryNames(log'), Len(EntryNames(log)) + 1, Len(EntryNames(log')))

LogHasOneEntryPerIdentity ==
    /\ NoDuplicates(EntryNames(log))
    /\ "Unknown" \notin Range(EntryNames(log))
    /\ Range(EntryNames(log)) \subseteq recognized_faces

LoggedIffNewAndKnown ==
    pc = "loop" =>
        /\ IsPrefix(EntryNames(log), EntryNames(log'))
        /\ \A n \in Persons \cup {"Unknown"} :
              n \in Range(NewEntries) <=>
                  /\ n \in Range(NamesOfStep)
                  /\ n # "Unknown"
                  /\ n \notin recognized_faces
        /\ NoDuplicates(NewEntries)
        /\ \A i, j \in 1..Len(NewEntries) :
              i < j => FirstIndex(NamesOfStep, NewEntries[i])
                         < FirstIndex(NamesOfStep, NewEntries[j])
        /\ recognized_faces' = recognized_faces \cup Range(NewEntries)

\* C1: within a session a recognition writes a log entry, and adds the name to
\* the logged set, exactly when the name is not "Unknown" and not yet in the
\* logged set; so the log holds at most one entry per identity, none for
\* "Unknown", in the order of first recognition.
C1_LoggedOncePerIdentity ==
    /\ []LogHasOneEntryPerIdentity
    /\ [][LoggedIffNewAndKnown]_vars

\* alice and bob were seen, then alice again: two entries, alice then bob
C1_Witness ==
    /\ log_file = "open"
    /\ EntryNames(log) = <<"alice", "bob">>
    /\ face_names = <<"alice">>
    /\ detections = 2

\* C2: whenever run has returned or raised with the capture device acquired,
\* the device is released, and an opened log file has its footer and is
\* closed exactly once.
C2_TeardownOnEveryExit ==
    (pc = "idle" /\ run_result # "none") =>
        /\ video_capture # "opened"
        /\ log_file # "open"
        /\ log_file = "closed" =>
              /\ log_closes = 1
              /\ Len(log) >= Len(FooterLines)
              /\ SubSeq(log, Len(log) - Len(FooterLines) + 1, Len(log)) = FooterLines

\* C5: detection, matching and logging run exactly on the process_frame calls
\* whose 0-based index is a multiple of process_every_n_frames; every other
\* call leaves face_locations, face_names, the logged set and the log entries
\* as they were.
C5_FrameThrottling ==
    [][calls' = calls + 1 =>
          IF calls % process_every_n_frames = 0
          THEN /\ detections' = detections + 1
               /\ Len(face_names') = Len(face_encodings')
               /\ Len(face_locations') = Len(face_encodings')
          ELSE /\ detections' = detections
               /\ UNCHANGED <<face_locations, face_encodings, face_names,
                              recognized_faces>>
               /\ EntryNames(log') = EntryNames(log)]_vars

\* the second call was skipped and kept what the first call found
C5_Witness ==
    /\ calls = 2
    /\ detections = 1
    /\ face_names = <<"alice", "Unknown">>
    /\ recognized_faces = {"alice"}

\* C6: a new session (a new log file) starts with an empty logged set.
C6_NewSessionStartsEmpty ==
    (pc = "loop" /\ session_frames = 0) => recognized_faces = {}

\* C7: when the camera cannot be opened the session never starts and the
\* caller gets a return value, not an exception, from run and from run_live.
C7_CameraFailureIsReturned ==
    /\ exit_path = "camera" =>
          /\ run_result = "returned"
          /\ ~log_opened
          /\ session_frames = 0
    /\ live_cap = "unopened" =>
          /\ live_result = "returned"
          /\ live_frames = 0

----------------------------------------------------------------------------
(* Properties of the store *)

HasFace(image) == ~image.raises /\ Len(image.encodings) >= 1
HasOneFace(image) == ~image.raises /\ Len(image.encodings) = 1

FirstFaces(images) ==
    LET ok == SelectSeq(images, HasFace)
    IN  [i \in 1..Len(ok) |-> ok[i].encodings[1]]

RECURSIVE ExpectedEncodings(_)
ExpectedEncodings(people) ==
    IF people = <<>> THEN <<>>
    ELSE FirstFaces(Head(people).images) \o ExpectedEncodings(Tail(people))

RECURSIVE ExpectedNames(_)
ExpectedNames(people) ==
    IF people = <<>> THEN <<>>
    ELSE [i \in 1..Len(FirstFaces(Head(people).images)) |-> Head(people).name]
         \o ExpectedNames(Tail(people))

\* C8: in a load every image adds exactly the first encoding the extractor
\* returned when it returned any, and nothing when it returned none or raised,
\* whatever the other images did; the count recorded for an identity is the
\* number of its images that yielded an encoding, K for K one-face images.
C8_OneEncodingPerImage ==
    [][loads' = loads + 1 =>
          /\ known_face_encodings' =
                known_face_encodings \o ExpectedEncodings(faces_dir.people)
          /\ known_face_names' = known_face_names \o ExpectedNames(faces_dir.people)
          /\ \A k \in 1..Len(faces_dir.people) :
                LET d == faces_dir.people[k]
                IN  d.images # <<>> =>
                      /\ d.name \in DOMAIN encoding_count'
                      /\ encoding_count'[d.name] =
                            Cardinality({i \in 1..Len(d.images) : HasFace(d.images[i])})
                      /\ (\A i \in 1..Len(d.images) : HasOneFace(d.images[i]))
                            => encoding_count'[d.name] = Len(d.images)]_vars

\* one image raised, the next showed two faces: the first of the two is kept
C8_Witness ==
    /\ loads = 1
    /\ faces_dir.people =
          << [name |-> "alice", images |-> <<Raises, Faces(<<1, 0>>)>>],
             [name |-> "bob", images |-> <<Faces(<<0>>), Faces(<<1>>)>>] >>
    /\ known_face_encodings = <<1, 0, 1>>
    /\ encoding_count["alice"] = 1
    /\ encoding_count["bob"] = 2

RECURSIVE SumCounts(_, _)
SumCounts(count, keys) ==
    IF keys = {} THEN 0
    ELSE LET k == CHOOSE x \in keys : TRUE
         IN  count[k] + SumCounts(count, keys \ {k})

\* C10: after any number of load_database calls the two lists have equal
\* length, every stored name is a key of encoding_count, encoding_count[name]
\* is the number of entries stored under name, and total_encodings is the sum
\* of the counts.
C10_StoreConsistent ==
    /\ Len(known_face_encodings) = Len(known_face_names)
    /\ Range(known_face_names) \subseteq DOMAIN encoding_count
    /\ \A n \in DOMAIN encoding_count :
          encoding_count[n] = Occurrences(known_face_names, n)
    /\ get_summary.total_encodings = SumCounts(encoding_count, DOMAIN encoding_count)

----------------------------------------------------------------------------
(* Properties of the matcher *)

Distance(i) == Abs(known_face_encodings[i] - query)
Nearest == {i \in 1..Len(known_face_encodings) :
               \A j \in 1..Len(known_face_encodings) : Distance(i) <= Distance(j)}
FirstOf(I) == CHOOSE i \in I : \A j \in I : i <= j

\* C3: the face is "Unknown" when the store is empty or the nearest stored
\* encoding is farther than the tolerance; otherwise it gets the name stored
\* with the first of the nearest encodings.
C3_NearestWithinTolerance ==
    matched =>
        IF Nearest = {} THEN match_name = "Unknown"
        ELSE IF Distance(FirstOf(Nearest)) > tolerance THEN match_name = "Unknown"
        ELSE match_name = known_face_names[FirstOf(Nearest)]

\* two identities are equally near and within the tolerance: the first wins
C3_Witness ==
    /\ matched
    /\ known_face_encodings = <<2, 0>>
    /\ known_face_names = <<"bob", "alice">>
    /\ query = 1
    /\ tolerance = 1
    /\ match_name = "bob"

Identical == {i \in 1..Len(known_face_encodings) : known_face_encodings[i] = query}

\* C4 as stated: a query identical to a stored encoding of A is matched to A,
\* whatever else the store holds.
C4_IdenticalMatchesItsIdentity ==
    matched => \A i \in Identical : match_name = known_face_names[i]

\* C4, amended: a query identical to a stored encoding is never "Unknown", for
\* every tolerance >= 0; it is matched at distance 0 to the identity of the
\* first stored encoding identical to it, which is A unless an identical
\* encoding of another identity is stored before every one of A's.
C4_IdenticalMatchesFirstIdentical ==
    (matched /\ Identical # {}) =>
        /\ match_name # "Unknown"
        /\ match_name = known_face_names[FirstOf(Identical)]
        /\ Distance(FirstOf(Nearest)) = 0
        /\ \A a \in Persons :
              (\A i \in Identical : known_face_names[i] = a) => match_name = a

\* tolerance 0: the query is alice's first encoding, stored after bob's
C4_Witness ==
    /\ matched
    /\ tolerance = 0
    /\ known_face_names = <<"bob", "alice", "alice">>
    /\ known_face_encodings = <<2, 0, 2>>
    /\ query = 0
    /\ match_name = "alice"

----------------------------------------------------------------------------
(* Properties of list_image_files *)

ImageSuffixes == Range(DefaultExtensions)

\* C9: a file is returned exactly once when its extension, ignoring case, is
\* one of .jpg .jpeg .png .bmp .gif, and not returned otherwise; the list is
\* in lexicographic order.
C9_ExtensionsIgnoreCase ==
    listed =>
        /\ \A f \in directory :
              Occurrences(image_files, f) =
                  IF Lower(Suffix(f)) \in ImageSuffixes THEN 1 ELSE 0
        /\ \A i \in 1..(Len(image_files) - 1) :
              ~StrLess(image_files[i + 1], image_files[i])

====
